---- MODULE Spec2Model ----
(***************************************************************************)
(* A model of difflint: the directive lexer and rule parser (lex.go), the  *)
(* diff hunk extractor, the target key and the satisfaction checker        *)
(* (difflint.go), and the two drafts of the rule resolver                  *)
(* RulesMapFromHunks (the sequential one of rules.go and the one that      *)
(* discovers target files in goroutines).                                  *)
(*                                                                         *)
(* Strings are sequences of atoms.  Every punctuation character the code   *)
(* looks at (".", "/", ":", " ", "?") is an atom of its own; a run of      *)
(* other characters ("main", "py", "#LINT", "IF") is one atom.  Prefix,    *)
(* suffix, cut and split on these sequences are the Go string functions    *)
(* on the strings they spell.                                              *)
(***************************************************************************)
EXTENDS Integers, Sequences, FiniteSets, TLC

VARIABLES
    call,        \* the last call of a pure function: its arguments and result
    tree,        \* the source tree: file path -> sequence of lines
    diff,        \* the parsed unified diff: sequence of hunk headers
    include,     \* LintOptions.Include
    exclude,     \* LintOptions.Exclude
    draft,       \* which draft of RulesMapFromHunks Lint is linked with
    pc,          \* position of Lint
    hunks,       \* result of ParseHunks
    rangesMap,   \* RulesMapFromHunks: file -> ranges of its hunks
    todo,        \* RulesMapFromHunks: files of rangesMap not yet iterated
    rulesMap,    \* RulesMapFromHunks: file -> rules
    targetsMap,  \* RulesMapFromHunks: set of target keys
    visited,     \* RulesMapFromHunks: the shared visited map (a set)
    frames,      \* the `rules` local of every RulesFromFile invocation
    tasks,       \* the goroutines spawned by RulesFromFile
    mainFrame,   \* the invocation the loop of RulesMapFromHunks waits on
    opened,      \* how many times each path was opened (os.Open calls)
    result,      \* LintResult.UnsatisfiedRules
    err,         \* the error Lint returns
    mapHeap,     \* the map objects of the process: address -> extension map
    extMaps,     \* the ExtMap values created so far, in creation order
    withCalls    \* how many times ExtMap.With was called

extVars == <<mapHeap, extMaps, withCalls>>

vars == <<call, tree, diff, include, exclude, draft, pc, hunks, rangesMap,
          todo, rulesMap, targetsMap, visited, frames, tasks, mainFrame,
          opened, result, err, extVars>>

lintVars == <<tree, diff, include, exclude, draft, pc, hunks, rangesMap,
              todo, rulesMap, targetsMap, visited, frames, tasks, mainFrame,
              opened, result, err, extVars>>

\* what the operations on ExtMap leave alone
nonExtVars == <<call, tree, diff, include, exclude, draft, pc, hunks, rangesMap,
                todo, rulesMap, targetsMap, visited, frames, tasks, mainFrame,
                opened, result, err>>

(***************************************************************************)
(* Bounds of the model.                                                    *)
(***************************************************************************)
MaxLine == 10     \* line numbers of the ranges handed to Intersects
MaxTokens == 4    \* length of the token streams handed to parseRules
MaxRules == 2     \* IF..END blocks in the whole source tree
MaxHunks == 2     \* hunks in the diff
MaxLexLines == 4         \* lines of a file handed to lex alone
MaxFileTargets == 2   \* IF directives of the source tree whose target names a file
MaxExtMaps == 2       \* ExtMap values created in one process
MaxWithCalls == 3     \* calls of ExtMap.With in one process

(***************************************************************************)
(* Strings.                                                                *)
(***************************************************************************)
\* a *string: <<>> is nil, <<s>> points to s
Nil == <<>>
Ptr(s) == <<s>>
NoError == [kind |-> "nil"]    \* a nil error

HasPrefix(s, p) == Len(p) <= Len(s) /\ SubSeq(s, 1, Len(p)) = p

HasSuffix(s, x) == Len(x) <= Len(s) /\ SubSeq(s, Len(s) - Len(x) + 1, Len(s)) = x

TrimPrefix(s, p) == IF HasPrefix(s, p) THEN SubSeq(s, Len(p) + 1, Len(s)) ELSE s

TrimSuffix(s, x) == IF HasSuffix(s, x) THEN SubSeq(s, 1, Len(s) - Len(x)) ELSE s

\* strings.Index for a one-character separator; 0 when absent
IndexOf(s, a) ==
    IF \E i \in 1..Len(s) : s[i] = a
    THEN CHOOSE i \in 1..Len(s) : s[i] = a /\ \A j \in 1..(i - 1) : s[j] # a
    ELSE 0

LastIndexOf(s, a) ==
    IF \E i \in 1..Len(s) : s[i] = a
    THEN CHOOSE i \in 1..Len(s) : s[i] = a /\ \A j \in (i + 1)..Len(s) : s[j] # a
    ELSE 0

\* strings.Cut(s, sep)
Cut(s, sep) ==
    LET i == IndexOf(s, sep) IN
    IF i = 0
    THEN [before |-> s, after |-> <<>>, found |-> FALSE]
    ELSE [before |-> SubSeq(s, 1, i - 1), after |-> SubSeq(s, i + 1, Len(s)), found |-> TRUE]

\* strings.Split(s, sep): always at least one element
RECURSIVE Split(_, _)
Split(s, sep) ==
    LET i == IndexOf(s, sep) IN
    IF i = 0 THEN <<s>>
    ELSE <<SubSeq(s, 1, i - 1)>> \o Split(SubSeq(s, i + 1, Len(s)), sep)

\* strings.Join(elems, sep)
RECURSIVE JoinStr(_, _)
JoinStr(elems, sep) ==
    IF elems = <<>> THEN <<>>
    ELSE IF Len(elems) = 1 THEN elems[1]
    ELSE elems[1] \o sep \o JoinStr(Tail(elems), sep)

(***************************************************************************)
(* path/filepath on slash-separated paths.                                 *)
(***************************************************************************)
Dot == <<".">>
DotDot == <<".", ".">>
Slash == <<"/">>

\* the elements Clean keeps: "" and "." dropped, ".." backs up over an element
RECURSIVE CleanElems(_, _, _)
CleanElems(elems, out, rooted) ==
    IF elems = <<>> THEN out
    ELSE LET e == Head(elems)
             rest == Tail(elems) IN
         IF e = <<>> \/ e = Dot THEN CleanElems(rest, out, rooted)
         ELSE IF e = DotDot
         THEN IF out # <<>> /\ out[Len(out)] # DotDot
              THEN CleanElems(rest, SubSeq(out, 1, Len(out) - 1), rooted)
              ELSE IF rooted THEN CleanElems(rest, out, rooted)
              ELSE CleanElems(rest, Append(out, e), rooted)
         ELSE CleanElems(rest, Append(out, e), rooted)

\* filepath.Clean
Clean(path) ==
    IF path = <<>> THEN Dot
    ELSE LET rooted == path[1] = "/"
             out == CleanElems(Split(path, "/"), <<>>, rooted)
             body == JoinStr(out, Slash) IN
         IF rooted THEN Slash \o body
         ELSE IF body = <<>> THEN Dot ELSE body

\* filepath.Dir
Dir(path) == Clean(SubSeq(path, 1, LastIndexOf(path, "/")))

\* filepath.Join of two elements
Join(a, b) ==
    IF a = <<>> THEN (IF b = <<>> THEN <<>> ELSE Clean(b))
    ELSE Clean(a \o Slash \o b)

\* filepath.Ext: from the last dot of the last element
Ext(path) ==
    LET base == SubSeq(path, LastIndexOf(path, "/") + 1, Len(path))
        i == LastIndexOf(base, ".") IN
    IF i = 0 THEN <<>> ELSE SubSeq(base, i, Len(base))

(***************************************************************************)
(* Ranges.                                                                 *)
(***************************************************************************)
Range(s, e) == [Start |-> s, End |-> e]

Intersects_strict(a, b) == a.Start < b.End /\ b.Start < a.End

Intersects(a, b) == a.Start <= b.End /\ b.Start <= a.End

(***************************************************************************)
(* The extension-template table (ext.go) and template lookup.              *)
(***************************************************************************)
DefaultTemplates ==
    << <<"#LINT", ".", "?">>,
       <<"/", "/", "LINT", ".", "?">>,
       <<"/", "*LINT", ".", "?">>,
       <<"<!--LINT", ".", "?">>,
       <<"'LINT", ".", "?">> >>

DefaultFileExtMap ==
    [e \in {<<"py">>, <<"sh">>, <<"go">>, <<"js">>, <<"jsx">>, <<"mjs">>, <<"ts">>,
            <<"tsx">>, <<"jsonc">>, <<"c">>, <<"cc">>, <<"cpp">>, <<"h">>, <<"hpp">>,
            <<"java">>, <<"rs">>, <<"swift">>, <<"svelte">>, <<"css">>, <<"html">>,
            <<"md">>, <<"markdown">>, <<"bas">>} |->
        CASE e \in {<<"py">>, <<"sh">>} -> <<0>>
          [] e \in {<<"go">>, <<"java">>, <<"rs">>, <<"swift">>} -> <<1>>
          [] e = <<"svelte">> -> <<1, 2, 3>>
          [] e = <<"css">> -> <<2>>
          [] e \in {<<"html">>, <<"md">>, <<"markdown">>} -> <<3>>
          [] e = <<"bas">> -> <<4>>
          [] OTHER -> <<1, 2>>]

DefaultTemplate == 0

\* the LintOptions that Do builds from NewExtMap
Options ==
    [Templates |-> DefaultTemplates,
     FileExtMap |-> DefaultFileExtMap,
     DefaultTemplate |-> DefaultTemplate]

\* LintOptions.TemplatesFromFile; template indices are 0-based; the error it
\* returns is nil on every path
TemplatesFromFile(o, file) ==
    LET fileType == TrimPrefix(Ext(file), Dot)
        templateIndices == IF fileType \in DOMAIN o.FileExtMap
                           THEN o.FileExtMap[fileType]
                           ELSE <<o.DefaultTemplate>>
        filteredTemplates == [k \in 1..Len(templateIndices) |-> o.Templates[templateIndices[k] + 1]] IN
    [templates |-> IF Len(filteredTemplates) = 0
                   THEN <<o.Templates[o.DefaultTemplate + 1]>>
                   ELSE filteredTemplates,
     err |-> NoError]

\* lexOptions.templatesFromFile of the earlier draft (difflint_parse.go): o
\* holds the file and a list of directiveTemplate{templates, fileTypes}
templatesFromFile(o) ==
    LET fileType == TrimPrefix(Ext(o.file), Dot)
        hits == {k \in 1..Len(o.templates) :
                    \E j \in 1..Len(o.templates[k].fileTypes) : o.templates[k].fileTypes[j] = fileType} IN
    IF fileType = <<>>
    THEN [templates |-> <<>>, err |-> [kind |-> "file has no extension", file |-> o.file]]
    ELSE IF hits # {}
    THEN [templates |-> o.templates[CHOOSE k \in hits : \A m \in hits : k <= m].templates,
          err |-> NoError]
    ELSE [templates |-> <<>>,
          err |-> [kind |-> "no directive template found for file type", fileType |-> fileType]]

(***************************************************************************)
(* The directive lexer (lex.go).                                           *)
(***************************************************************************)
directiveIf == <<"IF">>
directiveEnd == <<"END">>

Errorf(kind) == [kind |-> kind]

Wrapf(e, msg, file) == [kind |-> "wrapped", msg |-> msg, file |-> file, cause |-> e]

Wrap(e, msg) == [kind |-> "wrapped", msg |-> msg, cause |-> e]

\* parseDirective
parseDirective(s) ==
    IF s = directiveIf \/ s = directiveEnd
    THEN [d |-> s, err |-> NoError]
    ELSE [d |-> <<>>, err |-> [kind |-> "unknown directive", directive |-> s]]

NoToken == [directive |-> <<>>, args |-> <<>>, line |-> 0]

\* parseToken, from template k on
RECURSIVE parseTokenFrom(_, _, _, _)
parseTokenFrom(line, lineNumber, templates, k) ==
    IF k > Len(templates)
    THEN [token |-> NoToken, found |-> FALSE, err |-> NoError]
    ELSE LET c == Cut(templates[k], "?")
             prefix == c.before
             suffix == c.after IN
         IF ~c.found
         THEN [token |-> NoToken, found |-> FALSE, err |-> Errorf("template is missing ?")]
         ELSE IF ~HasPrefix(line, prefix) \/ ~HasSuffix(line, suffix)
         THEN parseTokenFrom(line, lineNumber, templates, k + 1)
         ELSE LET s == TrimSuffix(TrimPrefix(line, prefix), suffix)
                  args == Split(s, " ")
                  d == parseDirective(args[1]) IN
              IF d.err # NoError
              THEN [token |-> NoToken, found |-> FALSE, err |-> d.err]
              ELSE [token |-> [directive |-> d.d, args |-> Tail(args), line |-> lineNumber],
                    found |-> TRUE, err |-> NoError]

Reverse(q) == [k \in 1..Len(q) |-> q[Len(q) + 1 - k]]

parseToken_last(line, lineNumber, templates) == parseTokenFrom(line, lineNumber, Reverse(templates), 1)

parseToken(line, lineNumber, templates) == parseTokenFrom(line, lineNumber, templates, 1)

\* lex, from line lineCount + 1 on
RECURSIVE lexFrom(_, _, _, _)
lexFrom(lines, lineCount, templates, tokens) ==
    IF lineCount >= Len(lines)
    THEN [tokens |-> tokens, err |-> NoError]
    ELSE LET t == parseToken(lines[lineCount + 1], lineCount + 1, templates) IN
         IF t.err # NoError THEN [tokens |-> <<>>, err |-> t.err]
         ELSE IF ~t.found THEN lexFrom(lines, lineCount + 1, templates, tokens)
         ELSE lexFrom(lines, lineCount + 1, templates, Append(tokens, t.token))

lex_zeroBased(lines, templates) ==
    LET lx == lexFrom(lines, 0, templates, <<>>) IN
    [lx EXCEPT !.tokens = [k \in 1..Len(lx.tokens) |-> [lx.tokens[k] EXCEPT !.line = @ - 1]]]

lex(lines, templates) == lexFrom(lines, 0, templates, <<>>)

(***************************************************************************)
(* The rule parser (lex.go).                                               *)
(***************************************************************************)
\* Rule{}
ZeroRule ==
    [Hunk |-> [File |-> <<>>, Range |-> Range(0, 0)],
     Targets |-> <<>>,
     Present |-> FALSE,
     ID |-> Nil]

\* one argument of IF
parseTarget(arg) ==
    LET c == Cut(arg, ":") IN
    [File |-> IF c.before # <<>> THEN Ptr(c.before) ELSE Nil,
     ID |-> IF c.found THEN Ptr(c.after) ELSE Nil]

\* parseTargets
parseTargets(args, allowEmptyArgs) ==
    IF ~allowEmptyArgs /\ Len(args) = 0
    THEN [targets |-> <<>>, err |-> Errorf("missing target")]
    ELSE [targets |-> [k \in 1..Len(args) |-> parseTarget(args[k])], err |-> NoError]

presentIn_first(rng, ranges) == Len(ranges) > 0 /\ Intersects(rng, ranges[1])

\* the Present flag of a closed range
presentIn(rng, ranges) == \E k \in 1..Len(ranges) : Intersects(rng, ranges[k])

\* parseRules, case directiveIf; st is the loop state (r, rules, err)
parseIf_nested(st, file, token) ==
    LET t == parseTargets(token.args, TRUE) IN
    [st EXCEPT !.r = [st.r EXCEPT !.Targets = t.targets,
                                  !.Hunk = [File |-> file, Range |-> Range(token.line, 0)]]]

parseIf(st, file, token) ==
    IF st.r.Hunk.File # <<>>
    THEN [st EXCEPT !.rules = <<>>,
                    !.err = [kind |-> "unexpected IF directive", file |-> file, rune |-> token.line]]
    ELSE LET t == parseTargets(token.args, TRUE) IN
         IF t.err # NoError
         THEN [st EXCEPT !.rules = <<>>, !.err = t.err]
         ELSE [st EXCEPT !.r = [st.r EXCEPT !.Targets = t.targets,
                                            !.Hunk = [File |-> file, Range |-> Range(token.line, 0)]]]

\* parseRules, case directiveEnd
parseEnd_stray(st, file, token, ranges) ==
    IF st.r.Hunk.File = <<>> THEN st
    ELSE IF Len(token.args) > 1
    THEN [st EXCEPT !.rules = <<>>,
                    !.err = [kind |-> "unexpected arguments", args |-> token.args]]
    ELSE LET rng == Range(st.r.Hunk.Range.Start, token.line)
             closed == [st.r EXCEPT !.ID = IF Len(token.args) = 1 THEN Ptr(token.args[1]) ELSE @,
                                    !.Hunk.Range = rng,
                                    !.Present = presentIn(rng, ranges)] IN
         [st EXCEPT !.rules = Append(@, closed), !.r = ZeroRule]

parseEnd_anyArgs(st, file, token, ranges) ==
    IF st.r.Hunk.File = <<>>
    THEN [st EXCEPT !.rules = <<>>,
                    !.err = [kind |-> "unexpected END directive", file |-> file, rune |-> token.line]]
    ELSE LET rng == Range(st.r.Hunk.Range.Start, token.line)
             closed == [st.r EXCEPT !.ID = IF Len(token.args) >= 1 THEN Ptr(token.args[1]) ELSE @,
                                    !.Hunk.Range = rng,
                                    !.Present = presentIn(rng, ranges)] IN
         [st EXCEPT !.rules = Append(@, closed), !.r = ZeroRule]

parseEnd(st, file, token, ranges) ==
    IF st.r.Hunk.File = <<>>
    THEN [st EXCEPT !.rules = <<>>,
                    !.err = [kind |-> "unexpected END directive", file |-> file, rune |-> token.line]]
    ELSE IF Len(token.args) > 1
    THEN [st EXCEPT !.rules = <<>>,
                    !.err = [kind |-> "unexpected arguments", args |-> token.args]]
    ELSE LET rng == Range(st.r.Hunk.Range.Start, token.line)
             closed == [st.r EXCEPT !.ID = IF Len(token.args) = 1 THEN Ptr(token.args[1]) ELSE @,
                                    !.Hunk.Range = rng,
                                    !.Present = presentIn(rng, ranges)] IN
         [st EXCEPT !.rules = Append(@, closed), !.r = ZeroRule]

\* parseRules, the loop from token k on
RECURSIVE parseRulesFrom(_, _, _, _, _)
parseRulesFrom(st, file, tokens, ranges, k) ==
    IF st.err # NoError \/ k > Len(tokens) THEN st
    ELSE LET token == tokens[k] IN
         IF token.directive = directiveIf
         THEN parseRulesFrom(parseIf(st, file, token), file, tokens, ranges, k + 1)
         ELSE IF token.directive = directiveEnd
         THEN parseRulesFrom(parseEnd(st, file, token, ranges), file, tokens, ranges, k + 1)
         ELSE [st EXCEPT !.rules = <<>>,
                         !.err = [kind |-> "unknown directive", directive |-> token.directive]]

\* what parseRules returns once the loop is over
parseRulesReturn(st) == [rules |-> st.rules, err |-> st.err]

parseRules(file, tokens, ranges) ==
    parseRulesReturn(
        parseRulesFrom([r |-> ZeroRule, rules |-> <<>>, err |-> NoError], file, tokens, ranges, 1))

(***************************************************************************)
(* Calls of the pure functions on bounded inputs.                          *)
(***************************************************************************)
mainPy == <<"main", ".", "py">>
fooPy == <<"foo", ".", "py">>
relFooPy == <<".", "/", "foo", ".", "py">>
bar == <<"bar">>
baz == <<"baz">>

SeqsUpTo(S, n) == UNION {[1..k -> S] : k \in 0..n}

\* the ranges handed to Intersects
LineRanges == {Range(s, e) : s \in 0..MaxLine, e \in 0..MaxLine}

\* directive tokens before the lexer numbers them
TokenKinds ==
    {[directive |-> directiveIf, args |-> a] :
        a \in {<<>>, <<<<":">> \o bar>>, <<relFooPy \o <<":">> \o bar>>}}
    \cup
    {[directive |-> directiveEnd, args |-> a] : a \in {<<>>, <<bar>>, <<bar, baz>>}}

\* token k of a stream stands on line 2k
TokenStreams ==
    {[k \in DOMAIN ks |-> [directive |-> ks[k].directive, args |-> ks[k].args, line |-> 2 * k]] :
        ks \in SeqsUpTo(TokenKinds, MaxTokens)}

\* the hunk ranges of the file handed to parseRules
HunkRangeLists ==
    {<<>>, <<Range(3, 3)>>, <<Range(4, 5)>>, <<Range(7, 9), Range(3, 3)>>}

NoCall == [fn |-> "none"]

CallIntersects ==
    /\ call = NoCall
    /\ \E a \in LineRanges, b \in LineRanges :
          call' = [fn |-> "Intersects", a |-> a, b |-> b, ret |-> Intersects(a, b)]
    /\ UNCHANGED lintVars

CallParseRules ==
    /\ call = NoCall
    /\ \E tokens \in TokenStreams, ranges \in HunkRangeLists :
          call' = [fn |-> "parseRules", file |-> mainPy, tokens |-> tokens,
                   ranges |-> ranges, ret |-> parseRules(mainPy, tokens, ranges)]
    /\ UNCHANGED lintVars

\* templates of one file type: the Python template, a second template with a
\* trailing marker ("#LINT.? #"), and a template without its placeholder
pyTemplate == <<"#LINT", ".", "?">>
pyMarkedTemplate == <<"#LINT", ".", "?", " ", "#">>
noPlaceholderTemplate == <<"#LINT", ".">>

LexTemplateLists ==
    { <<pyTemplate>>,
      <<pyTemplate, pyMarkedTemplate>>,
      <<pyMarkedTemplate, pyTemplate>>,
      <<noPlaceholderTemplate>>,
      <<pyTemplate, noPlaceholderTemplate>>,
      <<noPlaceholderTemplate, pyTemplate>> }

\* the lines of the files handed to lex
LexLines ==
    { <<"print">>,
      <<"#LINT", ".", "IF">>,
      <<"#LINT", ".", "IF", " ", ":", "bar">>,
      <<"#LINT", ".", "IF", " ", "bar", " ", "#">>,
      <<"#LINT", ".", "END">>,
      <<"#LINT", ".", "END", " ", "bar">>,
      <<"#LINT", ".", "END", " ", "#">>,
      <<"#LINT", ".", "THEN">> }

\* lex followed by parseRules, as RulesFromFile calls them
CallLexParse ==
    /\ call = NoCall
    /\ \E lines \in SeqsUpTo(LexLines, MaxLexLines), templates \in LexTemplateLists :
          LET lx == lex(lines, templates) IN
          call' = [fn |-> "lexParse", file |-> mainPy, lines |-> lines,
                   templates |-> templates, ret |-> lx,
                   parsed |-> IF lx.err # NoError
                              THEN [rules |-> <<>>, err |-> lx.err]
                              ELSE parseRules(mainPy, lx.tokens, <<>>)]
    /\ UNCHANGED lintVars

\* the files whose templates are looked up
TemplateFiles ==
    { mainPy,
      <<"src", "/", "main", ".", "go">>,
      <<"Makefile">>,
      <<"a", ".", "b", "/", "README">>,
      <<"notes", ".", "xyz">> }

\* a template list of the earlier draft
DirectiveTemplates ==
    << [templates |-> <<DefaultTemplates[2]>>, fileTypes |-> << <<"go">>, <<"js">> >>],
       [templates |-> <<DefaultTemplates[1]>>, fileTypes |-> << <<"py">> >>] >>

CallTemplatesFromFile ==
    /\ call = NoCall
    /\ \E file \in TemplateFiles :
          call' = [fn |-> "TemplatesFromFile", file |-> file,
                   ret |-> TemplatesFromFile(Options, file)]
    /\ UNCHANGED lintVars

CallLexOptionsTemplatesFromFile ==
    /\ call = NoCall
    /\ \E file \in TemplateFiles :
          call' = [fn |-> "templatesFromFile", file |-> file,
                   ret |-> templatesFromFile([file |-> file, templates |-> DirectiveTemplates])]
    /\ UNCHANGED lintVars

(***************************************************************************)
(* The target key and the satisfaction checker (difflint.go).              *)
(***************************************************************************)
\* isRelativeToCurrentDirectory
isRelativeToCurrentDirectory(path) ==
    IF ~HasPrefix(path, Slash)
    THEN HasPrefix(path, <<".", "/">>) \/ HasPrefix(path, <<".", ".", "/">>)
    ELSE FALSE

\* TargetKey
TargetKey_raw(pathname, target) ==
    LET key1 == IF target.File # Nil /\ target.File[1] # <<>> THEN target.File[1] ELSE pathname
        key2 == IF target.ID # Nil THEN key1 \o <<":">> \o target.ID[1] ELSE key1 IN
    Clean(key2)

TargetKey(pathname, target) ==
    LET key1 == IF target.File # Nil /\ target.File[1] # <<>>
                THEN IF isRelativeToCurrentDirectory(target.File[1])
                     THEN Join(Dir(pathname), target.File[1])
                     ELSE target.File[1]
                ELSE pathname
        key2 == IF target.ID # Nil THEN key1 \o <<":">> \o target.ID[1] ELSE key1 IN
    Clean(key2)

\* Target{}
ZeroTarget == [File |-> Nil, ID |-> Nil]

\* Check, the body of the loop over one rule: the 0-based indices it
\* collects in unsatisfiedTargets (none when the rule is skipped)
CheckRule_noSkip(rule, tmap) ==
    {i \in 0..(Len(rule.Targets) - 1) :
        TargetKey(rule.Hunk.File, rule.Targets[i + 1]) \in tmap}

CheckRule(rule, tmap) ==
    IF rule.Present THEN {}
    ELSE {i \in 0..(Len(rule.Targets) - 1) :
             TargetKey(rule.Hunk.File, rule.Targets[i + 1]) \in tmap}

\* Check, the loop over the rules of one file
RECURSIVE CheckRules(_, _)
CheckRules(rules, tmap) ==
    IF rules = <<>> THEN <<>>
    ELSE LET unsatisfiedTargets == CheckRule(Head(rules), tmap)
             rest == CheckRules(Tail(rules), tmap) IN
         IF Cardinality(unsatisfiedTargets) > 0
         THEN <<[Rule |-> Head(rules), UnsatisfiedTargets |-> unsatisfiedTargets]>> \o rest
         ELSE rest

\* Check; order is the order in which the map iteration yields the files
RECURSIVE Check(_, _, _)
Check(rmap, order, tmap) ==
    IF order = <<>> THEN <<>>
    ELSE CheckRules(rmap[Head(order)], tmap) \o Check(rmap, Tail(order), tmap)

\* filepath.Match for a pattern without metacharacters
Match(pattern, name) == pattern = name

\* Include
Include(pathname, inc, exc) ==
    IF Len(inc) = 0 /\ Len(exc) = 0 THEN TRUE
    ELSE IF \E k \in 1..Len(exc) : Match(exc[k], pathname) THEN FALSE
    ELSE \E k \in 1..Len(inc) : Match(inc[k], pathname)

\* Lint, the filter over the unsatisfied rules
filterIncluded(urs, inc, exc) ==
    SelectSeq(urs, LAMBDA ur : Include(ur.Rule.Hunk.File, inc, exc))

\* ParseHunks, one hunk of one file diff
ParseHunk(h) ==
    [File |-> TrimPrefix(h.NewName, <<"b", "/">>),
     Range |-> Range(h.NewStartLine, h.NewStartLine + h.NewLines - 1)]

ParseHunks(d) == [k \in 1..Len(d) |-> ParseHunk(d[k])]

\* the paths, target files and identifiers handed to TargetKey
KeyPathnames ==
    { mainPy,
      <<"src", "/", "main", ".", "py">>,
      <<".", "/", "main", ".", "py">>,
      <<"src", "/", ".", ".", "/", "main", ".", "py">> }

KeyTargets ==
    {[File |-> f, ID |-> i] :
        f \in { Nil, Ptr(<<>>), Ptr(fooPy), Ptr(relFooPy),
                Ptr(<<".", ".", "/", "foo", ".", "py">>),
                Ptr(<<"lib", "/", ".", "/", "foo", ".", "py">>),
                Ptr(<<"/", "abs", "/", "foo", ".", "py">>) },
        i \in {Nil, Ptr(bar)}}

CallTargetKey ==
    /\ call = NoCall
    /\ \E pathname \in KeyPathnames, target \in KeyTargets :
          call' = [fn |-> "TargetKey", pathname |-> pathname, target |-> target,
                   ret |-> TargetKey(pathname, target)]
    /\ UNCHANGED lintVars

\* the hunk headers of the diffs handed to ParseHunks alone
HeaderKinds ==
    {[NewName |-> <<"b", "/">> \o f, NewStartLine |-> n, NewLines |-> c] :
        f \in {mainPy, fooPy}, n \in 0..3, c \in 0..2}

CallParseHunks ==
    /\ call = NoCall
    /\ \E d \in SeqsUpTo(HeaderKinds, MaxHunks) :
          call' = [fn |-> "ParseHunks", diff |-> d, ret |-> ParseHunks(d)]
    /\ UNCHANGED lintVars

(***************************************************************************)
(* The rule resolver: what both drafts of RulesMapFromHunks share.         *)
(***************************************************************************)
\* the ranges of the hunks of one file, in hunk order
RangesOfFile(hs, file) ==
    LET F[n \in 0..Len(hs)] ==
            IF n = 0 THEN <<>>
            ELSE IF hs[n].File = file THEN Append(F[n - 1], hs[n].Range)
            ELSE F[n - 1] IN
    F[Len(hs)]

\* rangesMap after the loop over the hunks
rangesMapOf_walk(hs) ==
    [f \in {hs[k].File : k \in 1..Len(hs)} \cup DOMAIN tree |-> RangesOfFile(hs, f)]

rangesMapOf(hs) ==
    [f \in {hs[k].File : k \in 1..Len(hs)} |-> RangesOfFile(hs, f)]

\* targetsMap after the loop over the hunks
targetsMapOf(hs) == {TargetKey(hs[k].File, ZeroTarget) : k \in 1..Len(hs)}

\* the keys the loop over a file's rules adds to targetsMap
ruleKeys(pathname, rules) ==
    {TargetKey(pathname, [File |-> Nil, ID |-> rules[k].ID]) : k \in 1..Len(rules)}

\* os.Open resolves the path against the working directory
fileExists(pathname) == Clean(pathname) \in DOMAIN tree

\* open, TemplatesFromFile, lex, parseRules of one file, errors wrapped
parseFile(pathname, ranges) ==
    IF ~fileExists(pathname)
    THEN [rules |-> <<>>,
          err |-> Wrapf(Errorf("no such file"), "failed to open file", pathname)]
    ELSE LET tf == TemplatesFromFile(Options, pathname)
             lx == lex(tree[Clean(pathname)], tf.templates) IN
         IF tf.err # NoError
         THEN [rules |-> <<>>,
               err |-> Wrapf(tf.err, "failed to parse templates for file", pathname)]
         ELSE IF lx.err # NoError
         THEN [rules |-> <<>>, err |-> Wrapf(lx.err, "failed to lex file", pathname)]
         ELSE LET pr == parseRules(pathname, lx.tokens, ranges) IN
              IF pr.err # NoError
              THEN [rules |-> <<>>,
                    err |-> Wrapf(pr.err, "failed to parse rules for file", pathname)]
              ELSE [rules |-> pr.rules, err |-> NoError]

(***************************************************************************)
(* The inputs of Lint: a source tree of two Python files built from        *)
(* three-line fragments, and a diff over them.                             *)
(***************************************************************************)
LintIf == <<"#LINT", ".", "IF">>
LintEnd == <<"#LINT", ".", "END">>
LintThen == <<"#LINT", ".", "THEN">>
Body == <<"print">>
Colon == <<":">>
Space == <<" ">>

\* IF [args] / body / END [id]
Block(args, id) ==
    << LintIf \o (IF args = <<>> THEN <<>> ELSE Space \o args),
       Body,
       LintEnd \o (IF id = <<>> THEN <<>> ELSE Space \o id) >>

Fragments ==
    { Block(<<>>, <<>>),                        \* IF ... END
      Block(<<>>, bar),                         \* IF ... END bar
      Block(Colon \o bar, <<>>),                \* IF :bar ... END
      Block(relFooPy \o Colon \o bar, <<>>),    \* IF ./foo.py:bar ... END
      <<LintIf, Body, Body>>,                   \* IF with no END
      <<Body, Body, LintEnd>>,                  \* END with no IF
      <<LintThen, Body, Body>> }                \* not a directive

RECURSIVE Concat(_)
Concat(ss) == IF ss = <<>> THEN <<>> ELSE Head(ss) \o Concat(Tail(ss))

\* at most MaxRules fragments in the two files together
Trees ==
    {[f \in {mainPy, fooPy} |-> IF f = mainPy THEN Concat(m) ELSE Concat(ff)] :
        m \in SeqsUpTo(Fragments, MaxRules), ff \in SeqsUpTo(Fragments, MaxRules)}

TreeSize(t) == (Len(t[mainPy]) + Len(t[fooPy])) \div 3

\* the lines of a tree that are IF directives with a file in their target
FileTargets(t) ==
    Cardinality({<<f, n>> \in {mainPy, fooPy} \X (1..(3 * MaxRules)) :
                    n <= Len(t[f]) /\ HasPrefix(t[f][n], LintIf \o Space \o relFooPy)})

\* every hunk header a diff may carry: one changed line, the body of a fragment
HunkHeaders ==
    [n \in 1..(2 * MaxRules) |->
        [NewName |-> <<"b", "/">> \o (IF n <= MaxRules THEN mainPy ELSE fooPy),
         NewStartLine |-> 3 * (IF n <= MaxRules THEN n ELSE n - MaxRules) - 1,
         NewLines |-> 1]]

PickHeaders(I) ==
    LET F[n \in 0..Len(HunkHeaders)] ==
            IF n = 0 THEN <<>>
            ELSE IF n \in I THEN Append(F[n - 1], HunkHeaders[n])
            ELSE F[n - 1] IN
    F[Len(HunkHeaders)]

Diffs == {PickHeaders(I) : I \in {J \in SUBSET (1..Len(HunkHeaders)) : Cardinality(J) <= MaxHunks}}

Drafts == {"rules.go", "goroutines"}

EmptyMap == [f \in {} |-> <<>>]

LintIdle ==
    /\ pc = "start"
    /\ hunks = <<>>
    /\ rangesMap = EmptyMap
    /\ todo = {}
    /\ rulesMap = EmptyMap
    /\ targetsMap = {}
    /\ visited = {}
    /\ frames = <<>>
    /\ tasks = <<>>
    /\ mainFrame = 0
    /\ opened = EmptyMap
    /\ result = <<>>
    /\ err = NoError

\* the package-level variable DefaultFileExtMap holds the address of the one
\* map object the package creates
DefaultFileExtMapAddr == "DefaultFileExtMap"

ExtIdle ==
    /\ mapHeap = [a \in {DefaultFileExtMapAddr} |-> DefaultFileExtMap]
    /\ extMaps = <<>>
    /\ withCalls = 0

Init ==
    /\ call = NoCall
    /\ ExtIdle
    /\ tree \in {t \in Trees : TreeSize(t) <= MaxRules /\ FileTargets(t) <= MaxFileTargets}
    /\ diff \in Diffs
    /\ include = <<>>
    /\ exclude = <<>>
    /\ draft \in Drafts
    /\ LintIdle

InitPure ==
    /\ call = NoCall
    /\ ExtIdle
    /\ tree = [f \in {mainPy, fooPy} |-> <<>>]
    /\ diff = <<>>
    /\ include = <<>>
    /\ exclude = <<>>
    /\ draft = "rules.go"
    /\ LintIdle

(***************************************************************************)
(* Lint.                                                                   *)
(***************************************************************************)
inputVars == <<call, tree, diff, include, exclude, draft, extVars>>

\* Lint up to the loop over rangesMap: ParseHunks and the loop over the hunks
LintParseHunks ==
    /\ pc = "start"
    /\ hunks' = ParseHunks(diff)
    /\ rangesMap' = rangesMapOf(hunks')
    /\ targetsMap' = targetsMapOf(hunks')
    /\ todo' = DOMAIN rangesMap'
    /\ pc' = "rules"
    /\ UNCHANGED <<inputVars, rulesMap, visited, frames, tasks, mainFrame, opened, result, err>>

countOpen(o, pathname) ==
    IF ~fileExists(pathname) THEN o
    ELSE LET f == Clean(pathname) IN
         [g \in DOMAIN o \cup {f} |-> IF g = f THEN (IF f \in DOMAIN o THEN o[f] + 1 ELSE 1) ELSE o[g]]

putMap(m, k, v) == [x \in DOMAIN m \cup {k} |-> IF x = k THEN v ELSE m[x]]

\* rules.go: one iteration of the loop over rangesMap
SeqParseFile ==
    /\ pc = "rules"
    /\ draft = "rules.go"
    /\ \E pathname \in todo :
          LET pf == parseFile(pathname, rangesMap[pathname]) IN
          /\ opened' = countOpen(opened, pathname)
          /\ todo' = todo \ {pathname}
          /\ IF pf.err # NoError
             THEN /\ pc' = "done"
                  /\ err' = Wrap(pf.err, "failed to parse rules from hunks")
                  /\ UNCHANGED <<rulesMap, targetsMap>>
             ELSE /\ targetsMap' = targetsMap \cup ruleKeys(pathname, pf.rules)
                  /\ rulesMap' = putMap(rulesMap, pathname, pf.rules)
                  /\ UNCHANGED <<pc, err>>
    /\ UNCHANGED <<inputVars, hunks, rangesMap, visited, frames, tasks, mainFrame, result>>

\* the goroutines RulesFromFile starts for the rules it parsed: one per
\* target that names a file, in rule and target order
targetFiles(rules) ==
    LET perRule(r) == SelectSeq(r.Targets, LAMBDA t : t.File # Nil) IN
    Concat([k \in 1..Len(rules) |-> [j \in 1..Len(perRule(rules[k])) |-> perRule(rules[k])[j].File[1]]])

spawn(rules, frame) ==
    LET files == targetFiles(rules) IN
    [k \in 1..Len(files) |->
        [path |-> files[k], parent |-> frame, pc |-> "check", frame |-> 0,
         moreRules |-> <<>>, tmp |-> <<>>]]

\* the goroutine draft: RulesMapFromHunks calls RulesFromFile for a hunk file
MainCall ==
    /\ pc = "rules"
    /\ draft = "goroutines"
    /\ mainFrame = 0
    /\ \E pathname \in todo :
          LET pf == parseFile(pathname, rangesMap[pathname])
              f == Len(frames) + 1 IN
          /\ visited' = visited \cup {pathname}
          /\ opened' = countOpen(opened, pathname)
          /\ todo' = todo \ {pathname}
          /\ IF pf.err # NoError
             THEN /\ pc' = "done"
                  /\ err' = Wrap(pf.err, "failed to parse rules from hunks")
                  /\ UNCHANGED <<frames, tasks, mainFrame>>
             ELSE /\ frames' = Append(frames, [path |-> pathname, rules |-> pf.rules])
                  /\ tasks' = tasks \o spawn(pf.rules, f)
                  /\ mainFrame' = f
                  /\ UNCHANGED <<pc, err>>
    /\ UNCHANGED <<inputVars, hunks, rangesMap, rulesMap, targetsMap, result>>

\* ... and stores what RulesFromFile returned
MainReturn ==
    /\ pc = "rules"
    /\ mainFrame # 0
    /\ LET pathname == frames[mainFrame].path
           rules == frames[mainFrame].rules IN
       /\ targetsMap' = targetsMap \cup ruleKeys(pathname, rules)
       /\ rulesMap' = putMap(rulesMap, pathname, rules)
    /\ mainFrame' = 0
    /\ UNCHANGED <<inputVars, pc, hunks, rangesMap, todo, visited, frames, tasks, opened, result, err>>

running == pc # "fatal"

\* goroutine: if _, ok := visited[pathname]; ok { return }
TaskCheck(g) ==
    /\ running
    /\ tasks[g].pc = "check"
    /\ tasks' = [tasks EXCEPT ![g].pc = IF tasks[g].path \in visited THEN "done" ELSE "call"]
    /\ UNCHANGED <<inputVars, pc, hunks, rangesMap, todo, rulesMap, targetsMap, visited,
                   frames, mainFrame, opened, result, err>>

\* goroutine: RulesFromFile(pathname, nil, ...) up to its return statement
TaskCall(g) ==
    /\ running
    /\ tasks[g].pc = "call"
    /\ LET pathname == tasks[g].path
           pf == parseFile(pathname, <<>>)
           f == Len(frames) + 1 IN
       /\ visited' = visited \cup {pathname}
       /\ opened' = countOpen(opened, pathname)
       /\ IF pf.err # NoError
          THEN /\ tasks' = [tasks EXCEPT ![g].pc = "done"]
               /\ UNCHANGED frames
          ELSE /\ frames' = Append(frames, [path |-> pathname, rules |-> pf.rules])
               /\ tasks' = [tasks EXCEPT ![g].pc = "ret", ![g].frame = f] \o spawn(pf.rules, f)
    /\ UNCHANGED <<inputVars, pc, hunks, rangesMap, todo, rulesMap, targetsMap,
                   mainFrame, result, err>>

\* goroutine: moreRules, err := RulesFromFile(...) returns its rules
TaskReturn(g) ==
    /\ running
    /\ tasks[g].pc = "ret"
    /\ tasks' = [tasks EXCEPT ![g].pc = "append", ![g].moreRules = frames[tasks[g].frame].rules]
    /\ UNCHANGED <<inputVars, pc, hunks, rangesMap, todo, rulesMap, targetsMap, visited,
                   frames, mainFrame, opened, result, err>>

\* goroutine: append(rules, moreRules...) reads the caller's rules
TaskAppendRead(g) ==
    /\ running
    /\ tasks[g].pc = "append"
    /\ tasks' = [tasks EXCEPT ![g].pc = "store", ![g].tmp = frames[tasks[g].parent].rules]
    /\ UNCHANGED <<inputVars, pc, hunks, rangesMap, todo, rulesMap, targetsMap, visited,
                   frames, mainFrame, opened, result, err>>

\* goroutine: rules = ... writes the caller's rules; wg.Done
TaskAppendWrite(g) ==
    /\ running
    /\ tasks[g].pc = "store"
    /\ frames' = [frames EXCEPT ![tasks[g].parent].rules = tasks[g].tmp \o tasks[g].moreRules]
    /\ tasks' = [tasks EXCEPT ![g].pc = "done", ![g].tmp = <<>>, ![g].moreRules = <<>>]
    /\ UNCHANGED <<inputVars, pc, hunks, rangesMap, todo, rulesMap, targetsMap, visited,
                   mainFrame, opened, result, err>>

\* the accesses to the visited map that are next in each thread
mainWritesVisited == pc = "rules" /\ draft = "goroutines" /\ mainFrame = 0 /\ todo # {}
taskReadsVisited(g) == tasks[g].pc = "check"
taskWritesVisited(g) == tasks[g].pc = "call"

\* two unsynchronised accesses to the visited map, one of them a write:
\* the Go runtime may detect them and abort the process
ConcurrentMapFault ==
    /\ running
    /\ \/ \E g \in DOMAIN tasks :
             mainWritesVisited /\ (taskReadsVisited(g) \/ taskWritesVisited(g))
       \/ \E g \in DOMAIN tasks, h \in DOMAIN tasks :
             g # h /\ taskWritesVisited(g) /\ (taskReadsVisited(h) \/ taskWritesVisited(h))
    /\ pc' = "fatal"
    /\ UNCHANGED <<inputVars, hunks, rangesMap, todo, rulesMap, targetsMap, visited,
                   frames, tasks, mainFrame, opened, result, err>>

wgZero == \A g \in DOMAIN tasks : tasks[g].pc = "done"

Orders(S) ==
    {p \in [1..Cardinality(S) -> S] : \A i, j \in 1..Cardinality(S) : i # j => p[i] # p[j]}

\* Lint from the end of the loop over rangesMap: wg.Wait, Check, the filter
LintCheck ==
    /\ pc = "rules"
    /\ todo = {}
    /\ mainFrame = 0
    /\ wgZero
    /\ \E order \in Orders(DOMAIN rulesMap) :
          result' = filterIncluded(Check(rulesMap, order, targetsMap), include, exclude)
    /\ pc' = "done"
    /\ UNCHANGED <<inputVars, hunks, rangesMap, todo, rulesMap, targetsMap, visited,
                   frames, tasks, mainFrame, opened, err>>

Task == \E g \in DOMAIN tasks :
            \/ TaskCheck(g)
            \/ TaskCall(g)
            \/ TaskReturn(g)
            \/ TaskAppendRead(g)
            \/ TaskAppendWrite(g)

Next ==
    \/ LintParseHunks
    \/ SeqParseFile
    \/ MainCall
    \/ MainReturn
    \/ Task
    \/ ConcurrentMapFault
    \/ LintCheck

Spec == Init /\ [][Next]_vars

(***************************************************************************)
(* The extension map (ext.go).  A Go map value is a reference: assigning   *)
(* DefaultFileExtMap to a field copies the address of the map object.      *)
(* append on the template slice of an ExtMap never writes an element the   *)
(* package-level slice DefaultTemplates can see, so that slice is the      *)
(* value DefaultTemplates throughout.                                      *)
(***************************************************************************)
\* ExtMap.With: o is the ExtMap value, heap the map objects
With_replace(o, heap, ext, tpl) ==
    LET hits == {i \in 1..Len(o.Templates) : o.Templates[i] = tpl}
        tplIndex == IF hits # {} THEN (CHOOSE i \in hits : \A j \in hits : i <= j) - 1
                    ELSE Len(o.Templates) IN
    [o |-> [o EXCEPT !.Templates = IF hits = {} THEN Append(@, tpl) ELSE @],
     heap |-> [heap EXCEPT ![o.FileExtMap] = putMap(@, ext, <<tplIndex>>)]]

With(o, heap, ext, tpl) ==
    LET hits == {i \in 1..Len(o.Templates) : o.Templates[i] = tpl}
        tplIndex == IF hits # {} THEN (CHOOSE i \in hits : \A j \in hits : i <= j) - 1
                    ELSE Len(o.Templates)
        m == heap[o.FileExtMap]
        indices == IF ext \in DOMAIN m THEN m[ext] ELSE <<>> IN
    [o |-> [o EXCEPT !.Templates = IF hits = {} THEN Append(@, tpl) ELSE @],
     heap |-> [heap EXCEPT ![o.FileExtMap] = putMap(m, ext, Append(indices, tplIndex))]]

\* the extensions and templates of the user's (extension, template) pairs
UserExts == {<<"py">>, <<"xyz">>}
UserTemplates == {DefaultTemplates[1], DefaultTemplates[2], <<";LINT", ".", "?">>}

\* NewExtMap(path): path is nil, or JSON text with one extension and one template
NewExtMap ==
    /\ Len(extMaps) < MaxExtMaps
    /\ LET o == [Templates |-> DefaultTemplates, FileExtMap |-> DefaultFileExtMapAddr] IN
       \/ /\ extMaps' = Append(extMaps, o)
          /\ UNCHANGED <<mapHeap, withCalls>>
       \/ /\ withCalls < MaxWithCalls
          /\ \E ext \in UserExts, tpl \in UserTemplates :
                LET w == With(o, mapHeap, ext, tpl) IN
                /\ extMaps' = Append(extMaps, w.o)
                /\ mapHeap' = w.heap
          /\ withCalls' = withCalls + 1
    /\ UNCHANGED nonExtVars

\* o.With(ext, tpl) on an ExtMap created earlier
CallWith ==
    /\ withCalls < MaxWithCalls
    /\ \E n \in 1..Len(extMaps), ext \in UserExts, tpl \in UserTemplates :
          LET w == With(extMaps[n], mapHeap, ext, tpl) IN
          /\ extMaps' = [extMaps EXCEPT ![n] = w.o]
          /\ mapHeap' = w.heap
    /\ withCalls' = withCalls + 1
    /\ UNCHANGED nonExtVars

NextExt ==
    \/ NewExtMap
    \/ CallWith

SpecExt == InitPure /\ [][NextExt]_vars

NextPure ==
    \/ CallIntersects
    \/ CallParseRules
    \/ CallLexParse
    \/ CallTemplatesFromFile
    \/ CallLexOptionsTemplatesFromFile
    \/ CallTargetKey
    \/ CallParseHunks

SpecPure == InitPure /\ [][NextPure]_vars

(***************************************************************************)
(* Properties.                                                             *)
(***************************************************************************)
\* Lint returned a result and no error
LintDone == pc = "done" /\ err = NoError

\* every rule of the rule map
MapRules == UNION {{rulesMap[f][k] : k \in 1..Len(rulesMap[f])} : f \in DOMAIN rulesMap}

\* target index i is recorded against rule R in the result of Lint
Recorded(R, i) ==
    \E n \in 1..Len(result) : result[n].Rule = R /\ i \in result[n].UnsatisfiedTargets

Reported(R) == \E n \in 1..Len(result) : result[n].Rule = R

\* the file a target of rule R names: R's own file when the target has none
TargetFileOf(R, t) == TargetKey(R.Hunk.File, [File |-> t.File, ID |-> Nil])

\* some present rule of the named file carries the identifier of the target
SatisfiedBy(R, t) ==
    LET f == TargetFileOf(R, t) IN
    /\ f \in DOMAIN rulesMap
    /\ \E k \in 1..Len(rulesMap[f]) : rulesMap[f][k].Present /\ rulesMap[f][k].ID = t.ID

TargetIndices(R) == 0..(Len(R.Targets) - 1)

\* the trees of the README
BarBlock == Block(<<>>, bar)
SingleFileTree == tree[mainPy] = BarBlock \o Block(Colon \o bar, <<>>) /\ tree[fooPy] = <<>>
MultipleFilesTree == tree[fooPy] = BarBlock /\ tree[mainPy] = Block(relFooPy \o Colon \o bar, <<>>)

\* the hunk headers of the diff, as a set of <<file, changed line>>
Touched == {<<TrimPrefix(diff[k].NewName, <<"b", "/">>), diff[k].NewStartLine>> : k \in 1..Len(diff)}

\* C1: Check records target index i against rule R exactly when R is
\* present, has targets, and no present rule of the file the target names
\* carries the target's identifier.
C1_RecordedIffPresentAndUnmatched ==
    LintDone =>
        \A R \in MapRules : \A i \in TargetIndices(R) :
            Recorded(R, i) <=> (R.Present /\ Len(R.Targets) > 0 /\ ~SatisfiedBy(R, R.Targets[i + 1]))

\* C2: no rule that is not present, and no rule without targets, appears
\* among the unsatisfied rules Lint returns.
C2_OnlyPresentRulesWithTargets ==
    pc = "done" =>
        \A n \in 1..Len(result) : result[n].Rule.Present /\ Len(result[n].Rule.Targets) > 0

C4_CrossFileMainOnly ==
    (pc = "done" /\ MultipleFilesTree /\ Touched = {<<mainPy, 2>>}) =>
        /\ err = NoError
        /\ Len(result) = 1
        /\ result[1].Rule.Hunk = [File |-> mainPy, Range |-> Range(1, 3)]
        /\ result[1].UnsatisfiedTargets = {0}
        /\ TargetKey(mainPy, result[1].Rule.Targets[1]) = fooPy \o Colon \o bar

\* C5: a rule whose range the diff overlaps, and whose every target names
\* a rule whose range the diff overlaps too, is not reported; on the two
\* trees of the README with both blocks changed Lint reports nothing.
C5_BothChangedNothingReported ==
    LintDone =>
        /\ \A R \in MapRules :
              (R.Present /\ Len(R.Targets) > 0 /\ \A i \in TargetIndices(R) : SatisfiedBy(R, R.Targets[i + 1]))
                  => ~Reported(R)
        /\ (SingleFileTree /\ Touched = {<<mainPy, 2>>, <<mainPy, 5>>}) => result = <<>>
        /\ (MultipleFilesTree /\ Touched = {<<mainPy, 2>>, <<fooPy, 2>>}) => result = <<>>

C5_Witness ==
    /\ LintDone
    /\ MultipleFilesTree
    /\ Touched = {<<mainPy, 2>>, <<fooPy, 2>>}
    /\ \E R \in MapRules : R.Present /\ Len(R.Targets) > 0 /\ SatisfiedBy(R, R.Targets[1])
    /\ result = <<>>

\* C6: with a diff of zero hunks Lint never fails, no rule is present and
\* the result is empty, whatever the source tree contains.
C6_EmptyDiffNothingReported ==
    diff = <<>> =>
        /\ pc \in {"start", "rules", "done"}
        /\ err = NoError
        /\ \A R \in MapRules : ~R.Present
        /\ result = <<>>

C6_Witness ==
    /\ diff = <<>>
    /\ pc = "done"
    /\ err = NoError
    /\ result = <<>>
    /\ tree[mainPy] = BarBlock \o Block(Colon \o bar, <<>>)

\* the lines a well-formed range covers
Covered(r) == r.Start..r.End

\* C7: Intersects(a, b) is true iff a.Start <= b.End and b.Start <= a.End;
\* it is symmetric, and inclusive where the ranges touch: [5,5] meets [1,5]
\* and [5,10] but neither [1,4] nor [6,10].
C7_IntersectsInclusiveSymmetric ==
    call.fn = "Intersects" =>
        /\ call.ret <=> (call.a.Start <= call.b.End /\ call.b.Start <= call.a.End)
        /\ call.ret <=> Intersects(call.b, call.a)
        /\ (call.a.Start <= call.a.End /\ call.b.Start <= call.b.End)
               => (call.ret <=> Covered(call.a) \cap Covered(call.b) # {})
        /\ (call.a = Range(5, 5) /\ call.b \in {Range(1, 5), Range(5, 10)}) => call.ret
        /\ (call.a = Range(5, 5) /\ call.b \in {Range(1, 4), Range(6, 10)}) => ~call.ret

C7_Witness ==
    /\ call.fn = "Intersects"
    /\ call.a = Range(5, 5)
    /\ call.b = Range(5, 10)
    /\ call.ret

\* tokens 1..j-1 alternate IF, END with at most one argument per END, so
\* that parseRules reaches token j without an error
AlternatesBefore(tokens, j) ==
    \A i \in 1..(j - 1) :
        IF i % 2 = 1 THEN tokens[i].directive = directiveIf
        ELSE tokens[i].directive = directiveEnd /\ Len(tokens[i].args) <= 1

\* token j is an IF that arrives while a rule is open
IfWhileOpen(tokens, j) ==
    j \in DOMAIN tokens /\ j % 2 = 0 /\ tokens[j].directive = directiveIf /\ AlternatesBefore(tokens, j)

\* token j is an END that arrives while no rule is open
EndWhileIdle(tokens, j) ==
    j \in DOMAIN tokens /\ j % 2 = 1 /\ tokens[j].directive = directiveEnd /\ AlternatesBefore(tokens, j)

\* the stream ends while a rule is open
EndsOpen(tokens) == Len(tokens) % 2 = 1 /\ AlternatesBefore(tokens, Len(tokens) + 1)

\* C8: an IF that arrives while a rule is open makes parseRules fail with
\* an unexpected-IF error and return no rules.
C8_NestedIfFails ==
    (call.fn = "parseRules" /\ \E j \in 1..MaxTokens + 1 : IfWhileOpen(call.tokens, j)) =>
        /\ call.ret.err.kind = "unexpected IF directive"
        /\ call.ret.rules = <<>>

C8_Witness ==
    /\ call.fn = "parseRules"
    /\ IfWhileOpen(call.tokens, 4)
    /\ call.ret.err.kind = "unexpected IF directive"
    /\ call.ret.rules = <<>>

\* C9: an END that arrives while no rule is open, first in the file or
\* right after another END, makes parseRules fail with an unexpected-END
\* error and return no rules.
C9_StrayEndFails ==
    (call.fn = "parseRules" /\ \E j \in 1..MaxTokens + 1 : EndWhileIdle(call.tokens, j)) =>
        /\ call.ret.err.kind = "unexpected END directive"
        /\ call.ret.rules = <<>>

C9_Witness ==
    /\ call.fn = "parseRules"
    /\ EndWhileIdle(call.tokens, 3)
    /\ call.ret.err.kind = "unexpected END directive"
    /\ call.ret.rules = <<>>

\* C10: when the token stream ends while a rule is open, parseRules fails
\* instead of returning the rules closed so far.
C10_UnterminatedRuleFails ==
    (call.fn = "parseRules" /\ EndsOpen(call.tokens)) => call.ret.err # NoError

\* the stream alternates IF, END from its first to its last token
WellFormed(tokens) == Len(tokens) % 2 = 0 /\ AlternatesBefore(tokens, Len(tokens) + 1)

\* token j is an END with more than one argument that arrives while a rule is open
EndWithArguments(tokens, j) ==
    /\ j \in DOMAIN tokens
    /\ j % 2 = 0
    /\ tokens[j].directive = directiveEnd
    /\ Len(tokens[j].args) > 1
    /\ AlternatesBefore(tokens, j)

\* C11: on END while a rule is open, exactly one argument becomes the
\* identifier of the closed rule, no argument leaves it without identifier,
\* and more than one argument makes parseRules fail with no rule returned.
C11_EndArguments ==
    call.fn = "parseRules" =>
        /\ WellFormed(call.tokens) =>
              /\ call.ret.err = NoError
              /\ Len(call.ret.rules) = Len(call.tokens) \div 2
              /\ \A k \in 1..Len(call.ret.rules) :
                    LET args == call.tokens[2 * k].args IN
                    /\ Len(args) = 1 => call.ret.rules[k].ID = <<args[1]>>
                    /\ Len(args) = 0 => call.ret.rules[k].ID = <<>>
        /\ (\E j \in 1..MaxTokens + 1 : EndWithArguments(call.tokens, j)) =>
              /\ call.ret.err.kind = "unexpected arguments"
              /\ call.ret.rules = <<>>

C11_Witness ==
    /\ call.fn = "parseRules"
    /\ EndWithArguments(call.tokens, 4)
    /\ Len(call.tokens[2].args) = 1
    /\ call.ret.err.kind = "unexpected arguments"
    /\ call.ret.rules = <<>>

\* C13: the Present flag of every rule parseRules returns is true iff some
\* hunk range of the file overlaps the rule's closed range [IF line, END
\* line], bounds included; with no hunk range it is false.
C13_PresentIffOverlap ==
    (call.fn = "parseRules" /\ call.ret.err = NoError) =>
        \A k \in 1..Len(call.ret.rules) :
            LET R == call.ret.rules[k] IN
            /\ R.Hunk.Range = Range(call.tokens[2 * k - 1].line, call.tokens[2 * k].line)
            /\ R.Present <=> \E n \in 1..Len(call.ranges) :
                                 Covered(R.Hunk.Range) \cap Covered(call.ranges[n]) # {}

C13_Witness ==
    /\ call.fn = "parseRules"
    /\ call.ret.err = NoError
    /\ call.ranges = <<Range(7, 9), Range(3, 3)>>
    /\ Len(call.ret.rules) = 1
    /\ call.ret.rules[1].Hunk.Range = Range(2, 4)
    /\ call.ret.rules[1].Present

\* the directive lines of a file under the Python template, and their keyword
IsDirectiveLine(line) == Len(line) >= 3 /\ SubSeq(line, 1, 2) = <<"#LINT", ".">>

DirectiveLines(lines) == {n \in 1..Len(lines) : IsDirectiveLine(lines[n])}

Keyword(line) == line[3]

\* the directive lines alternate IF, END, from the first IF to the last END
WellFormedLines(lines) ==
    LET D == DirectiveLines(lines) IN
    /\ Cardinality(D) % 2 = 0
    /\ \A n \in D :
          Keyword(lines[n]) = IF Cardinality({m \in D : m < n}) % 2 = 0 THEN "IF" ELSE "END"

\* C12: for a file whose directives alternate IF, END, lex followed by
\* parseRules returns one rule per IF/END pair, in line order, whose range
\* starts at the 1-based line of the IF and ends at the line of its END, so
\* the ranges of the file's rules are disjoint and strictly increasing.
C12_OneRulePerPairInLineOrder ==
    (/\ call.fn = "lexParse"
     /\ call.templates = <<pyTemplate>>
     /\ WellFormedLines(call.lines)) =>
        LET D == DirectiveLines(call.lines)
            rules == call.parsed.rules IN
        /\ call.parsed.err = NoError
        /\ 2 * Len(rules) = Cardinality(D)
        /\ \A k \in 1..Len(rules) :
              LET rng == rules[k].Hunk.Range IN
              /\ rng.Start \in D
              /\ Keyword(call.lines[rng.Start]) = "IF"
              /\ rng.End \in D
              /\ Keyword(call.lines[rng.End]) = "END"
              /\ rng.Start < rng.End
              /\ \A n \in D : ~(rng.Start < n /\ n < rng.End)
              /\ k < Len(rules) => rng.End < rules[k + 1].Hunk.Range.Start

C12_Witness ==
    /\ call.fn = "lexParse"
    /\ call.templates = <<pyTemplate>>
    /\ WellFormedLines(call.lines)
    /\ Len(call.parsed.rules) = 2
    /\ call.parsed.rules[1].Hunk.Range = Range(1, 2)
    /\ call.parsed.rules[2].Hunk.Range = Range(3, 4)

\* line matches template: the template has its placeholder, and the line
\* starts with what precedes it and ends with what follows it
Matches(line, template) ==
    LET i == IndexOf(template, "?") IN
    /\ i > 0
    /\ Len(line) >= Len(template) - 1
    /\ \A k \in 1..i - 1 : line[k] = template[k]
    /\ \A k \in 1..Len(template) - i : line[Len(line) + 1 - k] = template[Len(template) + 1 - k]

\* the token a line gives under one template it matches
TokenUnder(line, n, template) ==
    LET i == IndexOf(template, "?")
        words == Split(SubSeq(line, i, Len(line) - (Len(template) - i)), " ") IN
    [directive |-> words[1], args |-> Tail(words), line |-> n]

\* C14: a line that matches more than one template of its file gives the
\* token of the first of them in declared order.
C14_FirstMatchingTemplateWins ==
    (call.fn = "lexParse" /\ call.ret.err = NoError) =>
        \A n \in 1..Len(call.lines) :
            LET M == {k \in 1..Len(call.templates) : Matches(call.lines[n], call.templates[k])} IN
            Cardinality(M) > 1 =>
                \E j \in 1..Len(call.ret.tokens), first \in M :
                    /\ \A k \in M : first <= k
                    /\ call.ret.tokens[j] = TokenUnder(call.lines[n], n, call.templates[first])

C14_Witness ==
    /\ call.fn = "lexParse"
    /\ call.ret.err = NoError
    /\ call.templates = <<pyMarkedTemplate, pyTemplate>>
    /\ call.lines = << <<"#LINT", ".", "IF", " ", "bar", " ", "#">>,
                       <<"#LINT", ".", "END", " ", "#">> >>
    /\ call.ret.tokens = << [directive |-> directiveIf, args |-> <<bar>>, line |-> 1],
                            [directive |-> directiveEnd, args |-> <<>>, line |-> 2] >>

\* C16: when a template of the file has no placeholder, lexing fails with
\* the configuration error, whatever the file holds.
C16_MissingPlaceholderAlwaysFails ==
    (/\ call.fn = "lexParse"
     /\ \E k \in 1..Len(call.templates) : IndexOf(call.templates[k], "?") = 0) =>
        call.ret.err = Errorf("template is missing ?")

\* the innermost error of a chain of wrapped errors
RECURSIVE Cause(_)
Cause(e) == IF "cause" \in DOMAIN e THEN Cause(e.cause) ELSE e

\* some error of the chain carries the field with the value
RECURSIVE Mentions(_, _, _)
Mentions(e, field, v) ==
    \/ field \in DOMAIN e /\ e[field] = v
    \/ "cause" \in DOMAIN e /\ Mentions(e.cause, field, v)

\* C15: when a line matches a template and its keyword is neither IF nor
\* END, the error Lint returns is the unknown-directive error and names both
\* the file and the 1-based number of that line.
C15_UnknownDirectiveNamesFileAndLine ==
    (pc = "done" /\ Cause(err).kind = "unknown directive") =>
        \E f \in DOMAIN tree : \E n \in 1..Len(tree[f]) :
            /\ tree[f][n] = LintThen
            /\ Mentions(err, "file", f)
            /\ Mentions(err, "line", n)

\* the last element of the path has no extension
NoExtension(file) ==
    \A i \in 1..Len(file) : file[i] = "." => \E j \in i + 1..Len(file) : file[j] = "/"

\* C17: the template lookup of a file without extension fails, under both
\* lookups of the repository; so does the lookup of the earlier draft,
\* which has no default template, for an extension no template is mapped to.
C17_NoTemplateForFileFails ==
    /\ (call.fn \in {"TemplatesFromFile", "templatesFromFile"} /\ NoExtension(call.file)) =>
          call.ret.err # NoError
    /\ (call.fn = "templatesFromFile" /\ call.file = <<"notes", ".", "xyz">>) =>
          call.ret.err # NoError

\* the files the targets of the rules of file f name
TargetFilesOf(f) ==
    LET rules == parseFile(f, <<>>).rules IN
    UNION {{TargetFileOf(rules[k], rules[k].Targets[j]) : j \in 1..Len(rules[k].Targets)} :
              k \in 1..Len(rules)}

\* the files reachable from the files of S through target file references
RECURSIVE ReachableFrom(_)
ReachableFrom(S) ==
    LET T == S \cup UNION {TargetFilesOf(f) : f \in S} IN
    IF T = S THEN S ELSE ReachableFrom(T)

\* the files that own a hunk of the diff
HunkFiles == {hunks[k].File : k \in 1..Len(hunks)}

\* C18: when the resolution succeeds, the rule map has an entry for every
\* file that owns a hunk and for every file reachable from one through
\* target file references.
C18_MapCoversReachableFiles ==
    LintDone => \A f \in ReachableFrom(HunkFiles) : f \in DOMAIN rulesMap

\* C19: under every interleaving, a file is opened and parsed at most once
\* in one resolution.
C19_OpenedAtMostOnce == \A f \in DOMAIN opened : opened[f] <= 1

\* C20: when opening, lexing or parsing fails for a file that owns a hunk or
\* is reachable through target references, Lint returns an error and no
\* result: a failure inside a discovery task is not swallowed.
C20_FailureOfReachableFileReturned ==
    (pc = "done" /\ draft = "goroutines" /\ \E f \in ReachableFrom(HunkFiles) : parseFile(f, <<>>).err # NoError) =>
        err # NoError /\ result = <<>>

\* C21: the rule map of a resolution depends on the hunks and the files
\* alone, not on the schedule of the discovery tasks: at the end of every
\* run it is the map of the run in which every task ran after the return of
\* the call that started it, the rules of each hunk file as parsed.
C21_MapIndependentOfSchedule ==
    (LintDone /\ draft = "goroutines") =>
        \A f \in DOMAIN rulesMap : rulesMap[f] = parseFile(f, rangesMap[f]).rules

\* C26: the key set handed to Check holds the key file:id of a rule with an
\* identifier only if some rule of that file with that key is present.
C26_TargetKeysOnlyOfPresentRules ==
    LintDone =>
        \A f \in DOMAIN rulesMap : \A k \in 1..Len(rulesMap[f]) :
            LET R == rulesMap[f][k]
                key == TargetKey(f, [File |-> Nil, ID |-> R.ID]) IN
            (R.Hunk.File = f /\ R.ID # Nil /\ key \in targetsMap) =>
                \E j \in 1..Len(rulesMap[f]) :
                    /\ rulesMap[f][j].Present
                    /\ TargetKey(f, [File |-> Nil, ID |-> rulesMap[f][j].ID]) = key

\* C27: the path a discovery task checks against the visited set and opens
\* is the target's path resolved against the directory of the referencing
\* file, so two specifiers of one file are one entry of the visited set.
C27_VisitedByResolvedPath ==
    /\ \A g \in DOMAIN tasks :
          tasks[g].path = TargetKey(frames[tasks[g].parent].path,
                                    [File |-> Ptr(tasks[g].path), ID |-> Nil])
    /\ \A p \in visited, q \in visited : Clean(p) = Clean(q) => p = q

\* C28: once RulesMapFromHunks has returned, with a map or with an error, no
\* discovery task is still running.
C28_NoTaskRunsAfterReturn ==
    pc = "done" => \A g \in DOMAIN tasks : tasks[g].pc = "done"

\* the path TargetKey starts from: the target's file, put under the
\* directory of pathname when it is written ./ or ../, or pathname itself
KeyBase(pathname, target) ==
    IF target.File = <<>> \/ target.File = << <<>> >> THEN pathname
    ELSE LET file == target.File[1] IN
         IF SubSeq(file, 1, 2) = <<".", "/">> \/ SubSeq(file, 1, 3) = <<".", ".", "/">>
         THEN Clean(Dir(pathname) \o <<"/">> \o file)
         ELSE file

\* C22: TargetKey is the target's file (joined to the directory of pathname
\* when it starts with ./ or ../, as-is otherwise, pathname when the target
\* has no file), followed by ":" and the identifier when there is one,
\* normalised; without file and identifier it is the normalised pathname.
C22_TargetKeyShape ==
    call.fn = "TargetKey" =>
        LET base == KeyBase(call.pathname, call.target) IN
        /\ call.target.ID = <<>> => call.ret = Clean(base)
        /\ call.target.ID # <<>> => call.ret = Clean(base \o <<":">> \o call.target.ID[1])
        /\ (call.target.File = <<>> /\ call.target.ID = <<>>) => call.ret = Clean(call.pathname)

C22_Witness ==
    /\ call.fn = "TargetKey"
    /\ call.pathname = <<"src", "/", "main", ".", "py">>
    /\ call.target = [File |-> << <<".", ".", "/", "foo", ".", "py">> >>, ID |-> <<bar>>]
    /\ call.ret = <<"foo", ".", "py", ":", "bar">>

\* C23: every closed range has Start <= End: the range of every hunk
\* ParseHunks returns, hunks with no line on the new side included, and the
\* range of every rule parseRules returns.
C23_ClosedRangesOrdered ==
    /\ call.fn = "ParseHunks" =>
          \A k \in 1..Len(call.ret) : call.ret[k].Range.Start <= call.ret[k].Range.End
    /\ call.fn = "parseRules" =>
          \A k \in 1..Len(call.ret.rules) :
              call.ret.rules[k].Hunk.Range.Start <= call.ret.rules[k].Hunk.Range.End
    /\ call.fn = "lexParse" =>
          \A k \in 1..Len(call.parsed.rules) :
              call.parsed.rules[k].Hunk.Range.Start <= call.parsed.rules[k].Hunk.Range.End

\* the extension map an ExtMap value refers to
FileExtMapOf(o) == mapHeap[o.FileExtMap]

NoTwoEqualTemplates(o) ==
    \A i \in 1..Len(o.Templates), j \in 1..Len(o.Templates) :
        o.Templates[i] = o.Templates[j] => i = j

\* C24 as stated: after any sequence of With calls no template occurs twice
\* in the template list, and every extension the defaults cover still maps
\* to exactly its default template indices.
C24_DefaultsKeepTheirIndices ==
    \A n \in 1..Len(extMaps) :
        /\ NoTwoEqualTemplates(extMaps[n])
        /\ \A ext \in DOMAIN DefaultFileExtMap :
              /\ ext \in DOMAIN FileExtMapOf(extMaps[n])
              /\ FileExtMapOf(extMaps[n])[ext] = DefaultFileExtMap[ext]

\* C24, amended: no template occurs twice in the template list, every
\* default template keeps its index, and the indices of an extension the
\* defaults cover start with its default indices: With appends the index of
\* the template to the list of its extension, covered or not.
C24_DefaultsKeptAsPrefix ==
    \A n \in 1..Len(extMaps) :
        /\ NoTwoEqualTemplates(extMaps[n])
        /\ SubSeq(extMaps[n].Templates, 1, Len(DefaultTemplates)) = DefaultTemplates
        /\ \A ext \in DOMAIN DefaultFileExtMap :
              /\ ext \in DOMAIN FileExtMapOf(extMaps[n])
              /\ SubSeq(FileExtMapOf(extMaps[n])[ext], 1, Len(DefaultFileExtMap[ext]))
                    = DefaultFileExtMap[ext]

C24_Witness ==
    /\ withCalls = 2
    /\ Len(extMaps) = 1
    /\ extMaps[1].Templates = Append(DefaultTemplates, <<";LINT", ".", "?">>)
    /\ FileExtMapOf(extMaps[1])[<<"py">>] = <<0, 5>>
    /\ FileExtMapOf(extMaps[1])[<<"xyz">>] = <<5>>

\* C25: NewExtMap and With leave the package-level defaults unchanged: the
\* map object DefaultFileExtMap refers to, which every ExtMap created later
\* starts from, keeps the default contents.
C25_DefaultsUnchanged == mapHeap[DefaultFileExtMapAddr] = DefaultFileExtMap

====
